---- MODULE Spec2Model ----
(***************************************************************************)
(* A model of hn_top10_daily.py: the HTTP fetch helper, the ID lister, the *)
(* story reader, the collector with its worker pool, the presenters and    *)
(* main.                                                                   *)
(*                                                                         *)
(* Text is modelled as a sequence of tokens, each token a string: a        *)
(* character of a variable field, or a literal fragment of a format        *)
(* string.  The line break is the token "\n".                              *)
(***************************************************************************)
EXTENDS Integers, Sequences, FiniteSets, TLC

VARIABLES
    pc,           \* position of the main thread
    given,        \* the inputs fixed before the run, if any are
    limit,        \* args.limit, once read
    window_hours, \* args.window_hours, once read
    args_csv,     \* whether --csv was given, once read
    args_md,      \* whether --md was given, once read
    feed,         \* the call fetch_json(NEW_STORIES_ENDPOINT): what it met
    ids,          \* collect_top_new: ids
    fut,          \* the pool's futures, one per element of ids
    mapped,       \* the futures whose results the loop over ex.map has taken, in order
    fetched,      \* the item IDs requested so far
    overtaken,    \* history: a fetch has completed before one submitted earlier
    last_fetch,   \* history: the clock when the latest fetch completed
    nreq,         \* the number of requests made so far
    stories,      \* collect_top_new: stories
    clock,        \* the wall clock, in ticks
    now_filter,   \* the clock value datetime.now() read
    cutoff_ts,    \* collect_top_new: cutoff_ts
    recent,       \* collect_top_new: recent
    top,          \* main: stories (the collector's return value)
    raised,       \* the exception that left the program, if any
    stdout,       \* lines printed
    writes,       \* files written, in order
    csv_file,     \* rows of the CSV file
    md_file,      \* tokens of the Markdown file
    trunc_s,      \* human_trunc: s
    trunc_max,    \* human_trunc: max_len
    trunc_ret     \* human_trunc: the returned string

vars == <<pc, given, limit, window_hours, args_csv, args_md, feed, ids, fut,
          mapped, fetched, overtaken, last_fetch, nreq, stories, clock, now_filter,
          cutoff_ts, recent, top, raised, stdout, writes, csv_file, md_file, trunc_s, trunc_max,
          trunc_ret>>

truncVars == <<trunc_s, trunc_max, trunc_ret>>

----------------------------------------------------------------------------
(* Bounds of the model. *)

MaxFeed == 2          \* longest feed of the whole-run specification
MaxLongFeed == 11     \* longest feed of the pool specification
MaxTicks == 2         \* how far the clock advances while the items are fetched
MaxWindow == 1        \* largest --window-hours
MaxStrLen == 4        \* longest string given to human_trunc
MaxTruncLen == 5      \* largest max_len given to human_trunc
MaxNegLen == 2        \* most negative max_len given to human_trunc
MaxMdStories == 10    \* longest list given to write_md on its own
TicksPerSecond == 2   \* resolution of the clock below one second
Clock0 == 200000      \* the clock when the run starts, in ticks

(* Program constants. *)

TopN == 10            \* recent[:10]
TableTrunc == 80      \* human_trunc(s.title, 80)
SecondsPerHour == 3600
IstOffset == 19800    \* Asia/Kolkata is UTC+05:30

----------------------------------------------------------------------------
(* Python helpers. *)

Min(a, b) == IF a <= b THEN a ELSE b
Max(a, b) == IF a >= b THEN a ELSE b

\* s[:k] of a sequence: a negative k counts from the end.
PySlice(s, k) ==
    LET n == IF k >= 0 THEN Min(k, Len(s)) ELSE Max(Len(s) + k, 0)
    IN  SubSeq(s, 1, n)

\* int(x) of a quotient n/d (d > 0): truncation toward zero.
PyIntDiv(n, d) == IF n >= 0 THEN n \div d ELSE -((-n) \div d)

Digit(d) == <<"0", "1", "2", "3", "4", "5", "6", "7", "8", "9">>[d + 1]

RECURSIVE DecNat(_)
DecNat(n) == IF n < 10 THEN <<Digit(n)>> ELSE DecNat(n \div 10) \o <<Digit(n % 10)>>

\* str(n) of an integer.
Str(n) == IF n < 0 THEN <<"-">> \o DecNat(-n) ELSE DecNat(n)

Range(s) == {s[i] : i \in 1..Len(s)}

----------------------------------------------------------------------------
(* human_trunc *)

Ellipsis == "..."   \* the one character U+2026

\* A variant that cuts at max_len characters before the ellipsis.
human_trunc_cut_at_max(s, max_len) ==
    IF Len(s) <= max_len THEN s ELSE PySlice(s, max_len) \o <<Ellipsis>>

human_trunc(s, max_len) ==
    IF Len(s) <= max_len THEN s ELSE PySlice(s, max_len - 1) \o <<Ellipsis>>

----------------------------------------------------------------------------
(* Exceptions: the classes the request, the read, the decoding and the     *)
(* parsing raise, and Python's subclass relation among them (socket.timeout *)
(* is TimeoutError, as it is from Python 3.10 on).                         *)

Parent(c) ==
    CASE c = "HTTPError"            -> "URLError"
      [] c = "URLError"             -> "OSError"
      [] c = "TimeoutError"         -> "OSError"
      [] c = "ConnectionResetError" -> "OSError"
      [] c = "IncompleteRead"       -> "Exception"
      [] c = "UnicodeDecodeError"   -> "ValueError"
      [] c = "JSONDecodeError"      -> "ValueError"
      [] c = "OSError"              -> "Exception"
      [] c = "ValueError"           -> "Exception"
      [] c = "AttributeError"       -> "Exception"
      [] OTHER                      -> "object"

RECURSIVE IsInstance(_, _)
IsInstance(c, k) ==
    IF c = k THEN TRUE
    ELSE IF c = "object" THEN FALSE
    ELSE IsInstance(Parent(c), k)

\* What one request can meet, and the exception it then raises inside the
\* try block of fetch_json: urlopen wraps a failure to connect in URLError and
\* raises HTTPError on a non-success status; a timeout or a reset while the
\* response is read comes out of the socket as it is.
Failures ==
    { <<"connection refused", "URLError">>,
      <<"connect timeout", "URLError">>,
      <<"http status", "HTTPError">>,
      <<"read timeout", "TimeoutError">>,
      <<"connection reset", "ConnectionResetError">>,
      <<"body cut short", "IncompleteRead">>,
      <<"not utf-8", "UnicodeDecodeError">>,
      <<"not json", "JSONDecodeError">> }

\* except (HTTPError, URLError, TimeoutError, ValueError)
CaughtClasses == {"HTTPError", "URLError", "TimeoutError", "ValueError"}

Caught(exc) == \E k \in CaughtClasses : IsInstance(exc, k)

----------------------------------------------------------------------------
(* JSON values.  A field of an object is absent, null, an integer or a      *)
(* string; a value is null (Python's None), an object, or something else.  *)

Absent == [k |-> "absent", n |-> 0, s |-> <<>>]
Null   == [k |-> "null",   n |-> 0, s |-> <<>>]
JInt(n) == [k |-> "int", n |-> n, s |-> <<>>]
JStr(s) == [k |-> "str", n |-> 0, s |-> s]

NoFields == [type |-> Absent, id |-> Absent, title |-> Absent, url |-> Absent,
             score |-> Absent, by |-> Absent, time |-> Absent,
             descendants |-> Absent]

\* t: "null", "dict" or "list"; truthy: Python's truth value of it.
JNull       == [t |-> "null", truthy |-> FALSE, items |-> <<>>, f |-> NoFields]
JList(xs)   == [t |-> "list", truthy |-> xs # <<>>, items |-> xs, f |-> NoFields]
JDict(f)    == [t |-> "dict", truthy |-> f # NoFields, items |-> <<>>, f |-> f]

None == JNull

\* x or d, for a field x: the field unless it is falsy.
Falsy(x) ==
    \/ x.k \in {"absent", "null"}
    \/ x.k = "int" /\ x.n = 0
    \/ x.k = "str" /\ x.s = <<>>

----------------------------------------------------------------------------
(* fetch_json *)

EnvOk(body)   == [fail |-> "none", exc |-> "none", body |-> body]
EnvFail(fe)   == [fail |-> fe[1], exc |-> fe[2], body |-> JNull]

Return(v) == [ret |-> "return", value |-> v, exc |-> "none"]
Raise(e)  == [ret |-> "raise", value |-> JNull, exc |-> e]

\* One request; what the caller gets.
fetch_json(env) ==
    IF env.fail = "none" THEN Return(env.body)
    ELSE IF Caught(env.exc) THEN Return(None)
    ELSE Raise(env.exc)

----------------------------------------------------------------------------
(* get_new_story_ids *)

get_new_story_ids(env) ==
    LET r == fetch_json(env)
    IN  IF r.ret = "raise" THEN r
        ELSE IF r.value.t # "list" THEN Return(JList(<<>>))
        ELSE r

----------------------------------------------------------------------------
(* Story and get_item *)

NoTitle == <<"(no title)">>
Unknown == <<"unknown">>
NoUrl   == <<>>     \* None: falsy wherever it is read, like ""

NoStory == [id |-> 0, title |-> <<>>, url |-> NoUrl, score |-> 0, by |-> <<>>,
            time |-> 0, descendants |-> 0]

Got(s)     == [ret |-> "story", story |-> s, exc |-> "none"]
GotNone    == [ret |-> "none", story |-> NoStory, exc |-> "none"]
GotRaise(e) == [ret |-> "raise", story |-> NoStory, exc |-> e]

\* x or default, for a text field.
TextOr(x, d) == IF Falsy(x) THEN d ELSE x.s

\* int(x or 0) raises ValueError on a string that is no number, as every
\* non-empty string of the model is.
IntRaises(x) == ~Falsy(x) /\ x.k = "str"

\* A variant that raises a negative number to 0.
IntOr0Clamped(x) == IF Falsy(x) THEN 0 ELSE Max(x.n, 0)

IntOr0(x) == IF Falsy(x) THEN 0 ELSE x.n

get_item(env) ==
    LET r == fetch_json(env)
        data == r.value
    IN  IF r.ret = "raise" THEN GotRaise(r.exc)
        ELSE IF ~data.truthy THEN GotNone
        ELSE IF data.t # "dict" THEN GotRaise("AttributeError")
        ELSE IF data.f.type # JStr(<<"story">>) THEN GotNone
        ELSE IF IntRaises(data.f.score) \/ IntRaises(data.f.time)
                \/ IntRaises(data.f.descendants)
             THEN GotRaise("ValueError")
        ELSE Got([id |-> data.f.id.n,
                  title |-> TextOr(data.f.title, NoTitle),
                  url |-> IF data.f.url.k = "str" THEN data.f.url.s ELSE NoUrl,
                  score |-> IntOr0(data.f.score),
                  by |-> TextOr(data.f.by, Unknown),
                  time |-> IntOr0(data.f.time),
                  descendants |-> IntOr0(data.f.descendants)])

----------------------------------------------------------------------------
(* Story.hn_link and Story.created_at_ist *)

HnItemUrl ==
    <<"h","t","t","p","s",":","/","/","n","e","w","s",".","y","c","o","m","b",
      "i","n","a","t","o","r",".","c","o","m","/","i","t","e","m","?","i","d","=">>

hn_link(s) == HnItemUrl \o Str(s.id)

\* The creation time on the Asia/Kolkata wall clock.  The calendar fields of
\* strftime are not modelled: the text is the wall clock's seconds in
\* decimal, then the zone name.
created_at_ist(s) == Str(s.time + IstOffset) \o <<" ", "I", "S", "T">>

----------------------------------------------------------------------------
(* collect_top_new: the cutoff, the filter and the ranking *)

\* An aware datetime: the wall clock in ticks and the zone's offset in seconds.
DatetimeNow(clk, off) == [wall |-> clk + off * TicksPerSecond, off |-> off]
MinusHours(dt, h) ==
    [wall |-> dt.wall - h * SecondsPerHour * TicksPerSecond, off |-> dt.off]
AsTimezone(dt, off) ==
    [wall |-> dt.wall - dt.off * TicksPerSecond + off * TicksPerSecond, off |-> off]
\* int(dt.timestamp())
IntTimestamp(dt) == PyIntDiv(dt.wall - dt.off * TicksPerSecond, TicksPerSecond)

CutoffTs(clk, hours) ==
    LET now_ist    == DatetimeNow(clk, IstOffset)
        cutoff_utc == AsTimezone(MinusHours(now_ist, hours), 0)
    IN  IntTimestamp(cutoff_utc)

\* A variant with an exclusive boundary.
InWindowStrict(s, cutoff) == s.time > cutoff

\* s.time >= cutoff_ts
InWindow(s, cutoff) == s.time >= cutoff

RECURSIVE Filter(_, _)
Filter(ss, cutoff) ==
    IF ss = <<>> THEN <<>>
    ELSE (IF InWindow(Head(ss), cutoff) THEN <<Head(ss)>> ELSE <<>>)
         \o Filter(Tail(ss), cutoff)

\* key=lambda s: (s.score, s.descendants, s.time)
SortKey(s) == <<s.score, s.descendants, s.time>>

\* Python's order on tuples of integers of the same length.
RECURSIVE TupleLess(_, _)
TupleLess(a, b) ==
    IF a = <<>> THEN FALSE
    ELSE IF Head(a) # Head(b) THEN Head(a) < Head(b)
    ELSE TupleLess(Tail(a), Tail(b))

Reverse(s) == [i \in 1..Len(s) |-> s[Len(s) + 1 - i]]

\* x goes after every element whose key is not greater: the sort is stable.
RECURSIVE InsertStable(_, _)
InsertStable(x, sorted) ==
    IF sorted = <<>> THEN <<x>>
    ELSE IF TupleLess(SortKey(x), SortKey(Head(sorted))) THEN <<x>> \o sorted
    ELSE <<Head(sorted)>> \o InsertStable(x, Tail(sorted))

RECURSIVE SortAscending(_)
SortAscending(s) ==
    IF s = <<>> THEN <<>>
    ELSE InsertStable(s[Len(s)], SortAscending(SubSeq(s, 1, Len(s) - 1)))

\* A variant without reverse=True.
SortedNoReverse(s) == SortAscending(s)

\* list.sort(key=..., reverse=True): the list is reversed, sorted stably in
\* ascending order and reversed again, so equal keys keep their order.
SortedReverse(s) == Reverse(SortAscending(Reverse(s)))

\* recent.sort(...); return recent[:10]
Rank(ss) == PySlice(SortedReverse(ss), TopN)

----------------------------------------------------------------------------
(* The presenters *)

Notice == <<"No stories found in the specified window.">>
TableHeader == <<"#", " | ", "Title", " | ", "Score", " | ", "Comments", " | ",
                 "By", " | ", "Created (IST)", " | ", "HN Link", " | ", "URL">>
TableRule == <<"-", "-+-", "-", "-+-", "-", "-+-", "-", "-+-", "-", "-+-", "-",
               "-+-", "-", "-+-", "-">>

UrlOr(s, d) == IF s.url = NoUrl THEN d ELSE s.url

\* One row of the table.  The padding of ljust is not modelled.
TableRow(i, s) ==
    Str(i) \o <<" | ">> \o human_trunc(s.title, TableTrunc) \o <<" | ">>
    \o Str(s.score) \o <<" | ">> \o Str(s.descendants) \o <<" | ">> \o s.by
    \o <<" | ">> \o created_at_ist(s) \o <<" | ">> \o hn_link(s) \o <<" | ">>
    \o human_trunc(UrlOr(s, hn_link(s)), TableTrunc)

\* A variant without the return after the notice.
print_table_no_return(ss) ==
    (IF ss = <<>> THEN <<Notice>> ELSE <<>>)
    \o <<TableHeader, TableRule>> \o [i \in 1..Len(ss) |-> TableRow(i, ss[i])]

\* The lines print_table prints.
print_table(ss) ==
    IF ss = <<>> THEN <<Notice>>
    ELSE <<TableHeader, TableRule>> \o [i \in 1..Len(ss) |-> TableRow(i, ss[i])]

CsvHeader == << <<"rank">>, <<"id">>, <<"title">>, <<"score">>, <<"comments">>,
                <<"by">>, <<"created_ist">>, <<"hn_link">>, <<"url">> >>

CsvRow(i, s) ==
    <<Str(i), Str(s.id), s.title, Str(s.score), Str(s.descendants), s.by,
      created_at_ist(s), hn_link(s), UrlOr(s, <<>>)>>

\* The rows write_csv writes.
write_csv(ss) == <<CsvHeader>> \o [i \in 1..Len(ss) |-> CsvRow(i, ss[i])]

MdHeading == <<"# Top 10 New Hacker News (last 24h, IST)", "\n", "\n">>

\* One list line; the dashes of the format string are written "-".
MdLine(i, s) ==
    Str(i) \o <<". [">> \o s.title \o <<"](">> \o UrlOr(s, hn_link(s))
    \o <<") - **">> \o Str(s.score) \o <<" points**, ">> \o Str(s.descendants)
    \o <<" comments - ">> \o created_at_ist(s) \o <<" - [HN](">> \o hn_link(s)
    \o <<")", "\n">>

RECURSIVE MdLines(_, _)
MdLines(ss, i) ==
    IF i > Len(ss) THEN <<>> ELSE MdLine(i, ss[i]) \o MdLines(ss, i + 1)

\* A variant whose heading ends with a single line break.
write_md_one_break(ss) ==
    <<"# Top 10 New Hacker News (last 24h, IST)", "\n">> \o MdLines(ss, 1)

\* The text write_md writes.
write_md(ss) == MdHeading \o MdLines(ss, 1)

----------------------------------------------------------------------------
(* The environment: what the two endpoints may answer. *)

\* The feed lists the newest ID first.
FeedIds(n) == [i \in 1..n |-> n + 1 - i]

\* A creation time h hours and d seconds before the clock's first second.
TimeAgo(h, d) == (Clock0 \div TicksPerSecond) - h * SecondsPerHour - d

StoryItem(id, title, url, score, time, descendants) ==
    JDict([type |-> JStr(<<"story">>), id |-> JInt(id), title |-> title,
           url |-> url, score |-> score, by |-> JStr(<<"b">>), time |-> time,
           descendants |-> descendants])

CommentItem(id) ==
    JDict([NoFields EXCEPT !.type = JStr(<<"comment">>), !.id = JInt(id)])

FeedEnvs ==
    {EnvOk(JList(FeedIds(n))) : n \in 0..MaxFeed}
    \cup {EnvOk(JNull), EnvOk(CommentItem(1))}
    \cup {EnvFail(fe) : fe \in Failures}

ItemBodies(id) ==
    { JNull, JList(<<id>>), JDict(NoFields), CommentItem(id),
      StoryItem(id, Absent, Absent, Absent, JInt(TimeAgo(1, 0)), Null),
      StoryItem(id, JStr(<<"t">>), JStr(<<"u">>), JInt(0), JInt(TimeAgo(1, 1)), JInt(3)),
      StoryItem(id, JStr(<<"t">>), Null, JInt(3), JInt(TimeAgo(1, 0)), JInt(0)),
      StoryItem(id, JStr(<<"t">>), Null, JInt(-2), JInt(TimeAgo(1, -1)), JInt(-1)),
      StoryItem(id, JStr(<<"t">>), Null, JInt(3), JInt(TimeAgo(1, -1)), JInt(3)),
      StoryItem(id, JStr(<<"t">>), Null, JStr(<<"x">>), JInt(TimeAgo(1, 0)), JInt(0)) }

ItemEnvs(id) ==
    {EnvOk(b) : b \in ItemBodies(id)} \cup {EnvFail(fe) : fe \in Failures}

Limits == (0 - 1)..(MaxFeed + 1)
Windows == 0..MaxWindow

NotGiven == [fixed |-> FALSE]

LimitChoices  == IF given.fixed THEN {given.limit} ELSE Limits
WindowChoices == IF given.fixed THEN {given.window_hours} ELSE Windows
FeedChoices   == IF given.fixed THEN {given.feed} ELSE FeedEnvs
ItemChoices(id) == IF given.fixed THEN {given.items[id]} ELSE ItemEnvs(id)

----------------------------------------------------------------------------
(* The state before main runs. *)

NotCalled == [called |-> FALSE, env |-> EnvOk(JNull)]
Pending   == [state |-> "pending", env |-> EnvOk(JNull), res |-> GotNone]

TruncIdle == trunc_s = <<>> /\ trunc_max = 0 /\ trunc_ret = <<>>

\* Every variable of a run but pc, given and top.
Blank ==
    /\ limit = 0 /\ window_hours = 0
    /\ args_csv = "unread" /\ args_md = "unread"
    /\ feed = NotCalled
    /\ ids = <<>> /\ fut = <<>> /\ mapped = <<>>
    /\ fetched = {} /\ overtaken = FALSE /\ last_fetch = 0 /\ nreq = 0
    /\ stories = <<>>
    /\ clock = Clock0 /\ now_filter = 0 /\ cutoff_ts = 0
    /\ recent = <<>>
    /\ raised = "none"
    /\ stdout = <<>> /\ writes = <<>> /\ csv_file = <<>> /\ md_file = <<>>

Init == pc = "start" /\ given = NotGiven /\ top = <<>> /\ Blank /\ TruncIdle

----------------------------------------------------------------------------
(* main and collect_top_new *)

\* main calls collect_top_new, which lists the IDs and hands them to the pool.
GetIds ==
    /\ pc = "start"
    /\ \E lim \in LimitChoices, env \in FeedChoices :
         LET r == get_new_story_ids(env)
             taken == PySlice(r.value.items, lim)
         IN  /\ limit' = lim
             /\ feed' = [called |-> TRUE, env |-> env]
             /\ nreq' = nreq + 1
             /\ IF r.ret = "raise"
                  THEN /\ pc' = "raised" /\ raised' = r.exc
                       /\ UNCHANGED <<ids, fut>>
                  ELSE /\ ids' = taken
                       /\ fut' = [i \in 1..Len(taken) |-> Pending]
                       /\ pc' = IF taken = <<>> THEN "print" ELSE "map"
                       /\ UNCHANGED raised
    /\ UNCHANGED <<given, window_hours, args_csv, args_md, mapped, fetched,
                   stories, clock, now_filter, cutoff_ts, recent, top, stdout,
                   writes, csv_file, md_file, overtaken,
                   last_fetch, truncVars>>

\* A worker of the pool runs get_item for one ID.
Worker(i) ==
    /\ pc = "map"
    /\ fut[i].state = "pending"
    /\ \E env \in ItemChoices(ids[i]) :
         fut' = [fut EXCEPT ![i] = [state |-> "done", env |-> env,
                                    res |-> get_item(env)]]
    /\ fetched' = fetched \cup {ids[i]}
    /\ nreq' = nreq + 1
    /\ overtaken' = (overtaken \/ \E j \in 1..(i - 1) : fut[j].state = "pending")
    /\ last_fetch' = clock
    /\ UNCHANGED <<pc, given, limit, window_hours, args_csv, args_md, feed, ids,
                   mapped, stories, clock, now_filter, cutoff_ts, recent, top,
                   raised, stdout, writes, csv_file, md_file, truncVars>>

\* A variant that takes the results as they complete.
TakeAsCompleted(f, taken) ==
    {i \in DOMAIN f : f[i].state = "done" /\ i \notin Range(taken)}

\* ex.map yields the results in the order of submission: the loop waits for
\* the next future in that order.
TakeNext(f, taken) ==
    {i \in {Len(taken) + 1} : i \in DOMAIN f /\ f[i].state = "done"}

Cancelled(f) ==
    [i \in DOMAIN f |-> IF f[i].state = "pending"
                          THEN [f[i] EXCEPT !.state = "cancelled"] ELSE f[i]]

\* One turn of the loop over ex.map: the result is appended if it is a Story;
\* an exception of the call is raised again here and leaves the program.
MapNext ==
    /\ pc = "map"
    /\ \E i \in TakeNext(fut, mapped) :
         LET res == fut[i].res
         IN  IF res.ret = "raise"
               THEN /\ pc' = "raised" /\ raised' = res.exc
                    /\ fut' = Cancelled(fut)
                    /\ UNCHANGED <<mapped, stories>>
               ELSE /\ mapped' = Append(mapped, i)
                    /\ stories' = IF res.ret = "story"
                                    THEN Append(stories, res.story) ELSE stories
                    /\ pc' = IF Len(mapped') = Len(ids) THEN "filter" ELSE "map"
                    /\ fut' = IF Len(mapped') = Len(ids) THEN <<>> ELSE fut
                    /\ UNCHANGED raised
    /\ UNCHANGED <<given, limit, window_hours, args_csv, args_md, feed, ids,
                   fetched, nreq, clock, now_filter, cutoff_ts, recent, top,
                   stdout, writes, csv_file, md_file, overtaken,
                   last_fetch, truncVars>>

\* Time passes while the items are fetched and until the filter reads the
\* clock; nothing reads it later.
Tick ==
    /\ pc \in {"map", "filter"}
    /\ clock < Clock0 + MaxTicks
    /\ clock' = clock + 1
    /\ UNCHANGED <<pc, given, limit, window_hours, args_csv, args_md, feed, ids,
                   fut, mapped, fetched, nreq, stories, now_filter, cutoff_ts,
                   recent, top, raised, stdout, writes, csv_file, md_file,
                   overtaken,
                   last_fetch, truncVars>>

\* Filter to last window.
FilterStep ==
    /\ pc = "filter"
    /\ \E w \in WindowChoices :
         /\ window_hours' = w
         /\ now_filter' = clock
         /\ cutoff_ts' = CutoffTs(clock, w)
         /\ recent' = Filter(stories, CutoffTs(clock, w))
    /\ pc' = "rank"
    /\ UNCHANGED <<given, limit, args_csv, args_md, feed, ids, fut, mapped,
                   fetched, nreq, stories, clock, top, raised, stdout, writes,
                   csv_file, md_file, overtaken,
                   last_fetch, truncVars>>

\* Rank and return to main.
RankStep ==
    /\ pc = "rank"
    /\ recent' = SortedReverse(recent)
    /\ top' = Rank(recent)
    /\ pc' = "print"
    /\ UNCHANGED <<given, limit, window_hours, args_csv, args_md, feed, ids, fut,
                   mapped, fetched, nreq, stories, clock, now_filter, cutoff_ts,
                   raised, stdout, writes, csv_file, md_file, overtaken,
                   last_fetch, truncVars>>

PrintTable ==
    /\ pc = "print"
    /\ stdout' = stdout \o print_table(top)
    /\ pc' = "csv"
    /\ UNCHANGED <<given, limit, window_hours, args_csv, args_md, feed, ids, fut,
                   mapped, fetched, nreq, stories, clock, now_filter, cutoff_ts,
                   recent, top, raised, writes, csv_file, md_file, overtaken,
                   last_fetch, truncVars>>

\* if args.csv: write_csv(...); print(...)
ExportCsv ==
    /\ pc = "csv"
    /\ \E asked \in BOOLEAN :
         IF asked
           THEN /\ args_csv' = "yes"
                /\ csv_file' = write_csv(top)
                /\ writes' = Append(writes, "csv")
                /\ stdout' = stdout \o << <<>>, <<"Saved CSV to ", "top10.csv">> >>
           ELSE /\ args_csv' = "no"
                /\ UNCHANGED <<csv_file, writes, stdout>>
    /\ pc' = "md"
    /\ UNCHANGED <<given, limit, window_hours, args_md, feed, ids, fut, mapped,
                   fetched, nreq, stories, clock, now_filter, cutoff_ts, recent,
                   top, raised, md_file, overtaken,
                   last_fetch, truncVars>>

\* if args.md: write_md(...); print(...)
ExportMd ==
    /\ pc = "md"
    /\ \E asked \in BOOLEAN :
         IF asked
           THEN /\ args_md' = "yes"
                /\ md_file' = write_md(top)
                /\ writes' = Append(writes, "md")
                /\ stdout' = Append(stdout, <<"Saved Markdown to ", "top10.md">>)
           ELSE /\ args_md' = "no"
                /\ UNCHANGED <<md_file, writes, stdout>>
    /\ pc' = "done"
    /\ UNCHANGED <<given, limit, window_hours, args_csv, feed, ids, fut, mapped,
                   fetched, nreq, stories, clock, now_filter, cutoff_ts, recent,
                   top, raised, csv_file, overtaken,
                   last_fetch, truncVars>>

Next ==
    \/ GetIds
    \/ \E i \in DOMAIN fut : Worker(i)
    \/ MapNext
    \/ Tick
    \/ FilterStep
    \/ RankStep
    \/ PrintTable
    \/ ExportCsv
    \/ ExportMd

Spec == Init /\ [][Next]_vars

----------------------------------------------------------------------------
(* The collector on long feeds, with the responses fixed before the run:   *)
(* every item of the feed is a story but where the pattern leaves a gap.   *)

DefaultLimit == 400
DefaultWindow == 24

\* <<a, b, c, gap>>: the story of ID id has score (a * id) % 3, (b * id) % 2
\* comments and is (c * id) % 2 seconds younger than the window; with a gap,
\* item 3 is one second older than the window and item 5 fails to load.
PoolPatterns ==
    { <<0, 0, 0, FALSE>>, <<1, 0, 0, FALSE>>, <<1, 1, 1, FALSE>>,
      <<0, 1, 1, FALSE>>, <<2, 1, 0, TRUE>>, <<0, 0, 0, TRUE>> }

PoolItem(p, id) ==
    IF p[4] /\ id = 5 THEN EnvFail(<<"http status", "HTTPError">>)
    ELSE EnvOk(StoryItem(id, JStr(<<"t">>), Null, JInt((p[1] * id) % 3),
                         JInt(TimeAgo(DefaultWindow,
                                      IF p[4] /\ id = 3 THEN 1
                                      ELSE 0 - ((p[3] * id) % 2))),
                         JInt((p[2] * id) % 2)))

PoolGiven ==
    { [fixed |-> TRUE, limit |-> DefaultLimit, window_hours |-> DefaultWindow,
       feed |-> EnvOk(JList(FeedIds(n))),
       items |-> [id \in 1..n |-> PoolItem(p, id)]] :
      n \in (MaxLongFeed - 2)..MaxLongFeed, p \in PoolPatterns }

PoolInit == pc = "start" /\ given \in PoolGiven /\ top = <<>> /\ Blank /\ TruncIdle

PoolNext ==
    \/ GetIds
    \/ \E i \in DOMAIN fut : Worker(i)
    \/ MapNext
    \/ FilterStep
    \/ RankStep

SpecPool == PoolInit /\ [][PoolNext]_vars

----------------------------------------------------------------------------
(* human_trunc on its own *)

Chars == {"a", "b"}
Strings == UNION {[1..k -> Chars] : k \in 0..MaxStrLen}
MaxLens == (0 - MaxNegLen)..MaxTruncLen

TruncInit ==
    /\ pc = "trunc" /\ given = NotGiven /\ top = <<>> /\ Blank
    /\ trunc_s \in Strings /\ trunc_max \in MaxLens /\ trunc_ret = <<>>

Trunc ==
    /\ pc = "trunc"
    /\ trunc_ret' = human_trunc(trunc_s, trunc_max)
    /\ pc' = "trunc_done"
    /\ UNCHANGED <<given, limit, window_hours, args_csv, args_md, feed, ids, fut,
                   mapped, fetched, nreq, stories, clock, now_filter, cutoff_ts,
                   recent, top, raised, stdout, writes, csv_file, md_file,
                   overtaken, last_fetch, trunc_s, trunc_max>>

SpecTrunc == TruncInit /\ [][Trunc]_vars

----------------------------------------------------------------------------
(* write_md on its own: main at the Markdown export with any list. *)

\* The list of n stories in which story brk has a line break in its title,
\* story ubrk one in its URL, and story nourl no URL (0: no such story).
MdStory(i, brk, ubrk, nourl) ==
    [id |-> 40 + i,
     title |-> IF i = brk THEN <<"a", "\n", "b">> ELSE <<"a">>,
     url |-> IF i = nourl THEN NoUrl
             ELSE IF i = ubrk THEN <<"u", "\n">> ELSE <<"u">>,
     score |-> i - 2, by |-> <<"b">>, time |-> TimeAgo(1, i),
     descendants |-> i]

MdInputs ==
    { [i \in 1..n |-> MdStory(i, brk, ubrk, nourl)] :
      n \in 0..MaxMdStories, brk \in 0..MaxMdStories, ubrk \in 0..1,
      nourl \in 0..2 }

MdInit ==
    /\ pc = "md" /\ given = NotGiven /\ top \in MdInputs /\ Blank /\ TruncIdle

SpecMd == MdInit /\ [][ExportMd]_vars

----------------------------------------------------------------------------
(* Properties *)

Returned == pc \in {"print", "csv", "md", "done"}
Filtered == pc \in {"rank", "print", "csv", "md", "done"} /\ now_filter # 0

\* a ranks strictly above b: higher score, then more comments, then younger.
Above(a, b) ==
    \/ a.score > b.score
    \/ a.score = b.score /\ a.descendants > b.descendants
    \/ a.score = b.score /\ a.descendants = b.descendants /\ a.time > b.time

Kept == {i \in DOMAIN stories : stories[i].time >= cutoff_ts}
Ids(ss) == {ss[j].id : j \in DOMAIN ss}

C2_WindowInclusive ==
    Filtered =>
        /\ Len(mapped) = Len(ids) /\ fetched = Range(ids)
        /\ now_filter >= last_fetch
        /\ cutoff_ts * TicksPerSecond
             <= now_filter - window_hours * 3600 * TicksPerSecond
        /\ now_filter - window_hours * 3600 * TicksPerSecond
             < (cutoff_ts + 1) * TicksPerSecond
        /\ \A i \in DOMAIN stories :
             stories[i].time >= cutoff_ts <=> stories[i] \in Range(recent)
        /\ \A j \in DOMAIN top : top[j].time >= cutoff_ts

\* C2's case: time has passed while the items were fetched, a story created
\* exactly at the cutoff is returned and one created a second earlier was
\* fetched and is not.
C2_Witness ==
    /\ pc = "done" /\ Filtered /\ last_fetch > Clock0
    /\ \E j \in DOMAIN top : top[j].time = cutoff_ts
    /\ \E i \in DOMAIN stories : /\ stories[i].time = cutoff_ts - 1
                                 /\ stories[i] \notin Range(top)

\* C3: whatever the items answer, the collector does not raise.  Stated for
\* the answers fetch_json hands on or absorbs: the program ends with an
\* exception of the item phase only where fetch_json itself let one through.
C3_ItemsNeverRaise ==
    (pc = "raised" /\ ids # <<>>) =>
        \E i \in DOMAIN fut : /\ fut[i].res.ret = "raise"
                              /\ fut[i].env.fail # "none"
                              /\ fut[i].res.exc = raised

\* C4: every failure of the request comes back from fetch_json as None:
\* after a failed feed request the program has not raised and has no IDs,
\* a failed item request makes get_item return None, and each call made one
\* request.
C4_FetchAbsorbsAll ==
    /\ (feed.called /\ feed.env.fail # "none") => (pc # "raised" /\ ids = <<>>)
    /\ \A i \in DOMAIN fut :
         (fut[i].state = "done" /\ fut[i].env.fail # "none") => fut[i].res = GotNone
    /\ pc = "map" =>
         nreq = 1 + Cardinality({i \in DOMAIN fut : fut[i].state = "done"})

\* C5 as stated: every Story has score >= 0 and descendants >= 0.
C5_NonNegative ==
    /\ \A i \in DOMAIN fut : fut[i].res.ret = "story" =>
         fut[i].res.story.score >= 0 /\ fut[i].res.story.descendants >= 0
    /\ \A j \in DOMAIN top : top[j].score >= 0 /\ top[j].descendants >= 0

AsRead(x) == IF x.k = "int" THEN x.n ELSE 0

\* C5, amended: a Story's score and descendants are the record's fields where
\* these are integers and 0 where they are absent or null, so they are >= 0
\* unless the record's field is a negative integer; the collector and the
\* presenters hand the stories on unchanged.
C5_FieldsAsRead ==
    /\ \A i \in DOMAIN fut : fut[i].res.ret = "story" =>
         LET f == fut[i].env.body.f
             s == fut[i].res.story
         IN  /\ s.score = AsRead(f.score)
             /\ s.descendants = AsRead(f.descendants)
             /\ (f.score.k # "int" \/ f.score.n >= 0) => s.score >= 0
             /\ (f.descendants.k # "int" \/ f.descendants.n >= 0)
                  => s.descendants >= 0
    /\ fut # <<>> =>
         Range(stories) = {fut[i].res.story :
                             i \in {k \in Range(mapped) : fut[k].res.ret = "story"}}
    /\ Range(recent) \subseteq Range(stories)
    /\ Returned => Range(top) \subseteq Range(stories)
    /\ \A i \in 2..Len(csv_file) :
         /\ csv_file[i][4] = Str(top[i - 1].score)
         /\ csv_file[i][5] = Str(top[i - 1].descendants)

\* C5's case: a story read from a record with a negative score and one read
\* from a record without a score are both in the list the run ends with.
C5_Witness ==
    /\ pc = "done" /\ args_csv = "yes"
    /\ \E j \in DOMAIN top : top[j].score < 0 /\ top[j].descendants < 0
    /\ \E j \in DOMAIN top : top[j].score = 0 /\ top[j].title = NoTitle

TruncAsClaimed ==
    /\ Len(trunc_ret) <= trunc_max
    /\ Len(trunc_s) <= trunc_max => trunc_ret = trunc_s
    /\ Len(trunc_s) > trunc_max =>
         trunc_ret = SubSeq(trunc_s, 1, trunc_max - 1) \o <<Ellipsis>>

\* C6 as stated: for any string and any integer maximum length, the result is
\* no longer than the maximum, is the string itself when that fits, and is
\* otherwise its first max_len - 1 characters and an ellipsis.
C6_AnyLength == pc = "trunc_done" => TruncAsClaimed

\* C6, amended: for any string and any maximum length >= 1, the result is no
\* longer than the maximum, is the string itself when that fits, and is
\* otherwise its first max_len - 1 characters and an ellipsis.
C6_PositiveLength == (pc = "trunc_done" /\ trunc_max >= 1) => TruncAsClaimed

\* C6's case: a string longer than a maximum length >= 2 has been cut.
C6_Witness ==
    /\ pc = "trunc_done" /\ trunc_max >= 2 /\ Len(trunc_s) > trunc_max
    /\ trunc_ret[Len(trunc_ret)] = Ellipsis

IsTableLine(l) ==
    l = Notice \/ " | " \in Range(l) \/ "-+-" \in Range(l)

\* C7: a run whose collector returned the empty list has printed the notice
\* as its only table line, and has then written each file asked for, the CSV
\* before the Markdown: the CSV holds the header row alone, the Markdown the
\* heading and no list line.
C7_EmptyRun ==
    (pc = "done" /\ top = <<>>) =>
        /\ stdout # <<>> /\ stdout[1] = Notice
        /\ {k \in DOMAIN stdout : IsTableLine(stdout[k])} = {1}
        /\ writes = (IF args_csv = "yes" THEN <<"csv">> ELSE <<>>)
                    \o (IF args_md = "yes" THEN <<"md">> ELSE <<>>)
        /\ args_csv = "yes" =>
             /\ Len(csv_file) = 1
             /\ csv_file[1][1] = <<"rank">> /\ Len(csv_file[1]) = 9
        /\ args_md = "yes" =>
             /\ md_file[1] = "# Top 10 New Hacker News (last 24h, IST)"
             /\ \A k \in 2..Len(md_file) : md_file[k] = "\n"

\* C7's case: stories were fetched, none was in the window, and both files
\* were asked for.
C7_Witness ==
    /\ pc = "done" /\ top = <<>> /\ stories # <<>>
    /\ args_csv = "yes" /\ args_md = "yes"

Breaks(text) == {i \in DOMAIN text : text[i] = "\n"}
BreakAt(text, k) ==
    IF k = 0 THEN 0
    ELSE CHOOSE p \in Breaks(text) :
           Cardinality({q \in Breaks(text) : q <= p}) = k

\* The lines of a text: each is ended by a line break, and what follows the
\* last line break, if anything does, is a line too.
Lines(text) ==
    LET n == Cardinality(Breaks(text))
        ended == [k \in 1..n |->
                    SubSeq(text, BreakAt(text, k - 1) + 1, BreakAt(text, k) - 1)]
    IN  IF BreakAt(text, n) = Len(text) THEN ended
        ELSE Append(ended, SubSeq(text, BreakAt(text, n) + 1, Len(text)))

RankText ==
    << <<"1">>, <<"2">>, <<"3">>, <<"4">>, <<"5">>, <<"6">>, <<"7">>, <<"8">>,
       <<"9">>, <<"1", "0">>, <<"1", "1">>, <<"1", "2">> >>

StartsWith(l, prefix) ==
    Len(l) >= Len(prefix) /\ SubSeq(l, 1, Len(prefix)) = prefix

NoBreakIn(txt) == "\n" \notin Range(txt)

\* C8 as stated: the file of N stories without line breaks in their titles
\* has 1 + N lines, the heading and then the list lines, the k-th of which
\* starts with k.
C8_OnePlusN ==
    (pc = "done" /\ args_md = "yes"
       /\ \A j \in DOMAIN top : NoBreakIn(top[j].title)) =>
        LET ls == Lines(md_file)
        IN  /\ Len(ls) = 1 + Len(top)
            /\ \A k \in DOMAIN top : StartsWith(ls[1 + k], RankText[k] \o <<". [">>)

\* C8, amended: the file of N stories without line breaks in their titles and
\* URLs has 2 + N lines: the heading, an empty line, and then the list lines,
\* the k-th of which starts with k.
C8_TwoPlusN ==
    (pc = "done" /\ args_md = "yes"
       /\ \A j \in DOMAIN top : NoBreakIn(top[j].title) /\ NoBreakIn(top[j].url)) =>
        LET ls == Lines(md_file)
        IN  /\ Len(ls) = 2 + Len(top)
            /\ ls[1] = <<"# Top 10 New Hacker News (last 24h, IST)">>
            /\ ls[2] = <<>>
            /\ \A k \in DOMAIN top : StartsWith(ls[2 + k], RankText[k] \o <<". [">>)

\* C8's case: ten stories without line breaks have been written.
C8_Witness ==
    /\ pc = "done" /\ args_md = "yes" /\ Len(top) = 10
    /\ \A j \in DOMAIN top : NoBreakIn(top[j].title) /\ NoBreakIn(top[j].url)

FeedList == IF feed.env.fail = "none" /\ feed.env.body.t = "list"
              THEN feed.env.body.items ELSE <<>>

\* C9: when the collector has returned, the items requested are exactly the
\* first min(limit, n) IDs of the feed, each requested once, and none at all
\* when there are no such IDs.
C9_FirstLimitIds ==
    ((Returned \/ pc \in {"filter", "rank"}) /\ feed.called) =>
        /\ fetched = {FeedList[i] : i \in 1..(IF limit < Len(FeedList) THEN limit
                                              ELSE Len(FeedList))}
        /\ nreq = 1 + Cardinality(fetched)

RECURSIVE SeqCollect(_)
SeqCollect(idseq) ==
    IF idseq = <<>> THEN <<>>
    ELSE LET r == get_item(given.items[Head(idseq)])
         IN  (IF r.ret = "story" THEN <<r.story>> ELSE <<>>)
             \o SeqCollect(Tail(idseq))

\* C10: with the feed and the responses fixed, whatever the order in which
\* the pool's fetches complete, the stories collected so far are those a
\* fetch of the same IDs one after the other in feed order collects, and the
\* list returned is the list such a fetch returns.
C10_AsSequential ==
    /\ pc \in {"map", "filter", "rank", "print"} =>
         stories = SeqCollect(SubSeq(ids, 1, Len(mapped)))
    /\ pc = "print" =>
         top = Rank(Filter(SeqCollect(ids), CutoffTs(clock, given.window_hours)))

\* C10's case: a fetch completed before one submitted earlier, and the list
\* was cut at ten between two stories that tie on the whole sort key.
C10_Witness ==
    /\ pc = "print" /\ Len(top) = 10 /\ overtaken
    /\ \E i \in Kept : /\ stories[i].id \notin Ids(top)
                       /\ SortKey(stories[i]) = SortKey(top[10])

====
